---------------------------- MODULE Spec2Model ----------------------------
(***************************************************************************)
(* A model of xapian_backend.py, the Xapian backend of Haystack:           *)
(*   - SearchBackend._marshal_value   (value marshaller)                   *)
(*   - SearchQuery.build_query        (query compiler)                     *)
(*   - XHValueRangeProcessor          (range processor)                    *)
(*   - SearchBackend._do_date_facets  (date facets)                        *)
(*   - SearchBackend._do_field_facets (field facets)                       *)
(*   - SearchBackend.update / remove / clear / document_count /            *)
(*     delete_index, and the schema kept in the database's metadata        *)
(*   - SearchBackend.search / more_like_this / _do_query_facets            *)
(*                                                                         *)
(* Python strings are TLA+ strings.  Python integers are kept as a sign    *)
(* and a decimal magnitude string, because they are unbounded in Python.   *)
(***************************************************************************)
EXTENDS Integers, Sequences, FiniteSets, TLC

VARIABLES
    op,             \* the last operation that ran: its name and its arguments
    mv_in,          \* _marshal_value: the pair of values handed to it
    mv_out,         \* _marshal_value: the pair of strings returned
    range_in,       \* XHValueRangeProcessor: the schema and the tokens begin, end
    range_out,      \* XHValueRangeProcessor: what the call returned or raised
    query_filters,  \* SearchQuery.query_filters: the filter chain
    models,         \* SearchQuery.models: the declared model types
    query,          \* build_query: the compiled predicate, before the model clause
    final_query,    \* build_query: the returned query string
    facet_req,      \* _do_date_facets: the parameters of the one date facet;
                    \* _do_field_facets: the list field_facets
    results,        \* the results: their date values, or their attributes
    date_range,     \* _do_date_facets: the running bucket start
    facet_list,     \* _do_date_facets: the bucket list [label, count];
                    \* _do_field_facets: facet_dict, an entry per field
    facet_pc,       \* position in the facet method
    store,          \* the Xapian database: its documents in docid order
    db_exists,      \* whether the database exists at HAYSTACK_XAPIAN_PATH
    metadata,       \* the database's metadata: 'schema' and 'content'
    backend,        \* SearchBackend: self.schema and self.content_field_name
    last_count,     \* what document_count() returned, if it ran last (else -1)
    response,       \* what search() or more_like_this() did, if it ran last
    warned          \* whether the last operation emitted a warning

vars == <<op, mv_in, mv_out, range_in, range_out, query_filters, models, query, final_query, facet_req,
          results, date_range, facet_list, facet_pc, store, db_exists,
          metadata, backend, last_count, response, warned>>

Op(name, arg) == [name |-> name, arg |-> arg]

marshal_vars == <<mv_in, mv_out, range_in, range_out>>
query_vars   == <<query_filters, models, query, final_query>>
facet_vars   == <<facet_req, results, date_range, facet_list, facet_pc>>
store_vars   == <<store, db_exists, metadata, backend, last_count>>
search_vars  == <<response, warned>>

-----------------------------------------------------------------------------
(* Text helpers: Python's string formatting and ordering.                  *)

\* The characters the model's strings use, in code point order.
Alphabet == " \"'()*-.0123456789:ADNORT[]_abcdefghijklmnopqrstuvwxyz"

Ord(c) == CHOOSE i \in 1..Len(Alphabet) : SubSeq(Alphabet, i, i) = c

Char(s, i) == SubSeq(s, i, i)

\* Python's  a < b  on strings: code point by code point, a proper prefix first.
RECURSIVE StrLT(_, _)
StrLT(a, b) ==
    IF Len(b) = 0 THEN FALSE
    ELSE IF Len(a) = 0 THEN TRUE
    ELSE IF Char(a, 1) = Char(b, 1) THEN StrLT(Tail(a), Tail(b))
    ELSE Ord(Char(a, 1)) < Ord(Char(b, 1))

StrLE(a, b) == a = b \/ StrLT(a, b)

\* Python's  c in s  for a one-character string c.
Contains(s, c) == \E i \in 1..Len(s) : Char(s, i) = c

\* Zero padding of '%0<w>d' for a non-negative number given by its digits.
RECURSIVE ZeroPad(_, _)
ZeroPad(digits, w) ==
    IF Len(digits) >= w THEN digits ELSE ZeroPad("0" \o digits, w)

\* '%0<w>d' % n for a small non-negative n (a date or time component).
Fmt(n, w) == ZeroPad(ToString(n), w)

-----------------------------------------------------------------------------
(* Python values.                                                          *)

PyStr(s)  == [t |-> "str", s |-> s]
PyInt(neg, mag) == [t |-> "int", neg |-> neg, mag |-> mag]
PyBool(b) == [t |-> "bool", b |-> b]
PyDate(y, mo, d) == [t |-> "date", y |-> y, mo |-> mo, d |-> d]
PyDateTime(y, mo, d, h, mi, s, us) ==
    [t |-> "datetime", y |-> y, mo |-> mo, d |-> d,
     h |-> h, mi |-> mi, s |-> s, us |-> us]
PyList(l) == [t |-> "list", l |-> l]
\* A float, kept as the string Python writes it with.
PyFloat(s) == [t |-> "float", s |-> s]
PyNone == [t |-> "none"]

\* '%d' % value for a Python integer.
IntStr(v) == IF v.neg THEN "-" \o v.mag ELSE v.mag

-----------------------------------------------------------------------------
(* SearchBackend._marshal_value                                            *)

\* u'%012d' % value: the width counts the sign, the zeros follow the sign.
MarshalIntUnpadded(v) == IntStr(v)

MarshalInt(v) ==
    IF v.neg THEN "-" \o ZeroPad(v.mag, 11) ELSE ZeroPad(v.mag, 12)

MarshalDateTime(v) ==
    IF v.us # 0
    THEN Fmt(v.y, 4) \o Fmt(v.mo, 2) \o Fmt(v.d, 2) \o Fmt(v.h, 2)
         \o Fmt(v.mi, 2) \o Fmt(v.s, 2) \o Fmt(v.us, 6)
    ELSE Fmt(v.y, 4) \o Fmt(v.mo, 2) \o Fmt(v.d, 2) \o Fmt(v.h, 2)
         \o Fmt(v.mi, 2) \o Fmt(v.s, 2)

MarshalDate(v) == Fmt(v.y, 4) \o Fmt(v.mo, 2) \o Fmt(v.d, 2) \o "000000"

MarshalBool(v) == IF v.b THEN "t" ELSE "f"

\* xapian.sortable_serialise(value): the engine's encoding of a float, kept
\* as an application of the function to the float.
sortable_serialise(v) == "sortable_serialise(" \o v.s \o ")"

\* The isinstance chain of _marshal_value.
_marshal_value(value) ==
    CASE value.t = "datetime" -> MarshalDateTime(value)
      [] value.t = "date"     -> MarshalDate(value)
      [] value.t = "bool"     -> MarshalBool(value)
      [] value.t = "float"    -> sortable_serialise(value)
      [] value.t = "int"      -> MarshalInt(value)
      [] OTHER                -> value.s

-----------------------------------------------------------------------------
(* SearchQuery.build_query                                                 *)

\* A filter of query_filters: the_filter.field, .filter_type, .value; connector is
\* "and" when is_and(), "or" when is_or(), "none" otherwise; negated is is_not().
Filter(field, filter_type, value, connector, negated) ==
    [field |-> field, filter_type |-> filter_type, value |-> value,
     connector |-> connector, negated |-> negated]

\* A model of self.models: model._meta.app_label and model._meta.module_name.
Model(app_label, module_name) ==
    [app_label |-> app_label, module_name |-> module_name]

\* sep.join(strings)
RECURSIVE Join(_, _)
Join(strings, sep) ==
    IF Len(strings) = 0 THEN ""
    ELSE IF Len(strings) = 1 THEN strings[1]
    ELSE strings[1] \o sep \o Join(Tail(strings), sep)

\* '%s' % element for an element of a sequence value.
ElemStr(e) == IF e.t = "int" THEN IntStr(e) ELSE e.s

\* repr(element) and str(list), which '"%s"' % value applies to a list.
ElemRepr(e) == IF e.t = "int" THEN IntStr(e) ELSE "'" \o e.s \o "'"

ListStr(l) == "[" \o Join([i \in 1..Len(l) |-> ElemRepr(l[i])], ", ") \o "]"

\* Lines 905-909: a value that is no list or tuple is marshalled.
Marshalled(value) ==
    IF value.t = "list" THEN value ELSE PyStr(_marshal_value(value))

\* ' ' in value: a character of a string, an element of a list.
HasSpace(value) ==
    IF value.t = "list"
    THEN \E i \in 1..Len(value.l) : value.l[i] = PyStr(" ")
    ELSE Contains(value.s, " ")

\* Lines 912-913: value = '"%s"' % value, which makes a string of a list too.
Quoted(value) ==
    IF HasSpace(value)
    THEN PyStr("\"" \o (IF value.t = "list" THEN ListStr(value.l) ELSE value.s)
               \o "\"")
    ELSE value

\* for possible_value in value: the elements of a list, the characters of a string.
Options(field, value) ==
    IF value.t = "list"
    THEN [i \in 1..Len(value.l) |-> field \o ":" \o ElemStr(value.l[i])]
    ELSE [i \in 1..Len(value.s) |-> field \o ":" \o Char(value.s, i)]

\* The two filter_types dictionaries (lines 920-938), applied to (field, value).
FilterTypesSwapped(negated, filter_type, f, v) ==
    IF negated
    THEN CASE filter_type = "exact"      -> "NOT " \o f \o ":" \o v
           [] filter_type = "gte"        -> "NOT " \o f \o ":" \o v \o "..*"
           [] filter_type = "gt"         -> f \o ":" \o v \o "..*"
           [] filter_type = "lte"        -> "NOT " \o f \o ":.." \o v
           [] filter_type = "lt"         -> f \o ":.." \o v
           [] filter_type = "startswith" -> "NOT " \o f \o ":" \o v \o "*"
    ELSE CASE filter_type = "exact"      -> f \o ":" \o v
           [] filter_type = "gte"        -> f \o ":" \o v \o "..*"
           [] filter_type = "gt"         -> "NOT " \o f \o ":" \o v \o "..*"
           [] filter_type = "lte"        -> f \o ":.." \o v
           [] filter_type = "lt"         -> "NOT " \o f \o ":.." \o v
           [] filter_type = "startswith" -> f \o ":" \o v \o "*"

\* The dictionaries with gt, not negated, as the range from the bound on.
FilterTypesInclusive(negated, filter_type, f, v) ==
    IF negated
    THEN CASE filter_type = "exact"      -> "NOT " \o f \o ":" \o v
           [] filter_type = "gte"        -> "NOT " \o f \o ":" \o v \o "..*"
           [] filter_type = "gt"         -> f \o ":.." \o v
           [] filter_type = "lte"        -> "NOT " \o f \o ":.." \o v
           [] filter_type = "lt"         -> f \o ":" \o v \o "..*"
           [] filter_type = "startswith" -> "NOT " \o f \o ":" \o v \o "*"
    ELSE CASE filter_type = "exact"      -> f \o ":" \o v
           [] filter_type = "gte"        -> f \o ":" \o v \o "..*"
           [] filter_type = "gt"         -> f \o ":" \o v \o "..*"
           [] filter_type = "lte"        -> f \o ":.." \o v
           [] filter_type = "lt"         -> "NOT " \o f \o ":" \o v \o "..*"
           [] filter_type = "startswith" -> f \o ":" \o v \o "*"

FilterTypes(negated, filter_type, f, v) ==
    IF negated
    THEN CASE filter_type = "exact"      -> "NOT " \o f \o ":" \o v
           [] filter_type = "gte"        -> "NOT " \o f \o ":" \o v \o "..*"
           [] filter_type = "gt"         -> f \o ":.." \o v
           [] filter_type = "lte"        -> "NOT " \o f \o ":.." \o v
           [] filter_type = "lt"         -> f \o ":" \o v \o "..*"
           [] filter_type = "startswith" -> "NOT " \o f \o ":" \o v \o "*"
    ELSE CASE filter_type = "exact"      -> f \o ":" \o v
           [] filter_type = "gte"        -> f \o ":" \o v \o "..*"
           [] filter_type = "gt"         -> "NOT " \o f \o ":.." \o v
           [] filter_type = "lte"        -> f \o ":.." \o v
           [] filter_type = "lt"         -> "NOT " \o f \o ":" \o v \o "..*"
           [] filter_type = "startswith" -> f \o ":" \o v \o "*"

\* Lines 940-951: the chunk of a filter on a named field.
FieldChunk(the_filter, value) ==
    IF the_filter.filter_type # "in"
    THEN FilterTypes(the_filter.negated, the_filter.filter_type,
                     the_filter.field, value.s)
    ELSE IF the_filter.negated
         THEN "NOT " \o Join(Options(the_filter.field, value), " NOT ")
         ELSE "(" \o Join(Options(the_filter.field, value), " OR ") \o ")"

\* The body of the loop over query_filters (lines 896-951): the chunks one
\* filter appends to query_chunks.
FilterChunks(the_filter) ==
    LET value == Quoted(Marshalled(the_filter.value))
    IN  (IF the_filter.connector = "and" THEN <<"AND">> ELSE <<>>)
        \o (IF the_filter.connector = "or" THEN <<"OR">> ELSE <<>>)
        \o (IF the_filter.negated /\ the_filter.field = "content"
            THEN <<"NOT">> ELSE <<>>)
        \o (IF the_filter.field = "content"
            THEN <<value.s>>
            ELSE (IF the_filter.negated THEN <<"AND">> ELSE <<>>)
                 \o <<FieldChunk(the_filter, value)>>)

RECURSIVE QueryChunks(_)
QueryChunks(filters) ==
    IF Len(filters) = 0 THEN <<>>
    ELSE FilterChunks(filters[1]) \o QueryChunks(Tail(filters))

\* Lines 953-955: pull off a leading "AND" or "OR".
StripLeadingKeepAll(query_chunks) == query_chunks

StripLeading(query_chunks) ==
    IF query_chunks[1] \in {"AND", "OR"} THEN Tail(query_chunks) ELSE query_chunks

\* Lines 888-957: the local variable query.
CompileQuery(filters) ==
    IF Len(filters) = 0 THEN "*"
    ELSE Join(StripLeading(QueryChunks(filters)), " ")

\* Lines 959-965: the clause for self.models.
WithModelsUngrouped(q, ms) ==
    IF Len(ms) # 0
    THEN q \o " " \o Join([i \in 1..Len(ms) |->
             "django_ct:" \o ms[i].app_label \o "." \o ms[i].module_name], " ")
    ELSE q

WithModels(q, ms) ==
    IF Len(ms) # 0
    THEN "(" \o q \o ") " \o Join([i \in 1..Len(ms) |->
             "django_ct:" \o ms[i].app_label \o "." \o ms[i].module_name], " ")
    ELSE q

\* SearchQuery.build_query()
build_query ==
    /\ op' = Op("build_query", <<>>)
    /\ query' = CompileQuery(query_filters)
    /\ final_query' = WithModels(CompileQuery(query_filters), models)
    /\ UNCHANGED <<query_filters, models>>
    /\ UNCHANGED <<marshal_vars, facet_vars, store_vars, search_vars>>

-----------------------------------------------------------------------------
(* The states before any operation, and the inputs of the query compiler.   *)

IdleRange == range_in = <<>> /\ range_out = PyNone

IdleMarshal == mv_in = <<>> /\ mv_out = <<>> /\ IdleRange

IdleQuery ==
    query_filters = <<>> /\ models = <<>> /\ query = "" /\ final_query = ""

\* Bounds of the filter chains and of the model lists.
MaxFilters == 2
MaxModels == 2

QFields == {"status", "tag"}
FilterOps == {"exact", "gte", "gt", "lte", "lt", "startswith"}
Connectors == {"none", "and", "or"}

ScalarValues ==
    {PyStr("open"), PyStr("two words"), PyStr("OR"), PyInt(FALSE, "5")}

SeqValues ==
    {PyList(<<PyInt(FALSE, "1"), PyInt(FALSE, "2"), PyInt(FALSE, "3")>>),
     PyList(<<PyStr("a")>>),
     PyList(<<PyStr("a b"), PyStr("c")>>),
     PyList(<<PyStr("a"), PyStr(" ")>>)}

\* The filters a chain may start with: content filters carry a scalar, filters
\* on a named field carry a scalar, or a sequence under the operator in.
FirstFilters ==
    {Filter("content", "exact", v, c, n) :
        v \in ScalarValues, c \in Connectors, n \in BOOLEAN}
    \cup {Filter(f, o, v, c, n) : f \in QFields, o \in FilterOps,
            v \in ScalarValues, c \in Connectors, n \in BOOLEAN}
    \cup {Filter(f, "in", v, c, n) : f \in QFields,
            v \in SeqValues, c \in Connectors, n \in BOOLEAN}

\* The filters a chain may go on with.
RestFilters ==
    {Filter("content", "exact", PyStr("why"), "and", FALSE),
     Filter("status", "lt", PyInt(FALSE, "5"), "or", TRUE),
     Filter("tag", "in", PyList(<<PyStr("a"), PyStr("b")>>), "and", TRUE)}

RECURSIVE RestChains(_)
RestChains(n) ==
    IF n <= 0 THEN {<<>>}
    ELSE {<<>>} \cup {<<f>> \o r : f \in RestFilters, r \in RestChains(n - 1)}

Chains ==
    {<<>>} \cup {<<f>> \o r : f \in FirstFilters, r \in RestChains(MaxFilters - 1)}

AllModels == {Model("core", "mockmodel"), Model("core", "anothermockmodel")}

ModelLists == UNION {[1..n -> AllModels] : n \in 0..MaxModels}

-----------------------------------------------------------------------------
(* datetime: comparison, replace(), timedelta addition, isoformat() and      *)
(* strptime().                                                               *)

IsLeap(y) == (y % 4 = 0 /\ y % 100 # 0) \/ y % 400 = 0

DaysInMonth(y, mo) ==
    IF mo = 2 THEN (IF IsLeap(y) THEN 29 ELSE 28)
    ELSE IF mo \in {4, 6, 9, 11} THEN 30 ELSE 31

DaysInYear(y) == IF IsLeap(y) THEN 366 ELSE 365

\* The days before January 1st of year y (datetime's _days_before_year).
DaysBeforeYear(y) ==
    (y - 1) * 365 + (y - 1) \div 4 - (y - 1) \div 100 + (y - 1) \div 400

RECURSIVE DaysBeforeMonth(_, _)
DaysBeforeMonth(y, mo) ==
    IF mo <= 1 THEN 0 ELSE DaysBeforeMonth(y, mo - 1) + DaysInMonth(y, mo - 1)

\* date.toordinal()
ToOrdinal(v) == DaysBeforeYear(v.y) + DaysBeforeMonth(v.y, v.mo) + v.d

\* date.fromordinal(): the year, searched upwards from a lower estimate.
RECURSIVE YearOfOrdinal(_, _)
YearOfOrdinal(n, y) ==
    IF n > DaysBeforeYear(y + 1) THEN YearOfOrdinal(n, y + 1) ELSE y

RECURSIVE MonthOfOrdinal(_, _, _)
MonthOfOrdinal(n, y, mo) ==
    IF n > DaysInMonth(y, mo) THEN MonthOfOrdinal(n - DaysInMonth(y, mo), y, mo + 1)
    ELSE <<mo, n>>

\* A datetime is valid when its month and day exist (replace() raises
\* ValueError otherwise).
ValidDate(y, mo, d) ==
    /\ y \in 1..9999
    /\ mo \in 1..12
    /\ d \in 1..DaysInMonth(y, mo)

\* date_range.replace(year=y, month=mo): a datetime, or ValueError.
ValueError == [t |-> "ValueError"]

Replace(v, y, mo) ==
    IF ValidDate(y, mo, v.d) THEN [v EXCEPT !.y = y, !.mo = mo] ELSE ValueError

\* date_range + datetime.timedelta(seconds=n), for n >= 0.
AddSeconds(v, n) ==
    LET secs == v.h * 3600 + v.mi * 60 + v.s + n
        ord  == ToOrdinal(v) + secs \div 86400
        yr   == YearOfOrdinal(ord, ord \div 366 + 1)
        md   == MonthOfOrdinal(ord - DaysBeforeYear(yr), yr, 1)
        rest == secs % 86400
    IN  [v EXCEPT !.y = yr, !.mo = md[1], !.d = md[2],
                  !.h = rest \div 3600, !.mi = (rest % 3600) \div 60,
                  !.s = rest % 60]

DtKey(v) == <<v.y, v.mo, v.d, v.h, v.mi, v.s, v.us>>

RECURSIVE SeqLT(_, _)
SeqLT(a, b) ==
    IF Len(a) = 0 \/ Len(b) = 0 THEN Len(a) < Len(b)
    ELSE IF a[1] = b[1] THEN SeqLT(Tail(a), Tail(b))
    ELSE a[1] < b[1]

\* a < b on datetimes.
DtLT(a, b) == SeqLT(DtKey(a), DtKey(b))

\* datetime.isoformat(): the microseconds appear only when they are not 0.
IsoFormat(v) ==
    Fmt(v.y, 4) \o "-" \o Fmt(v.mo, 2) \o "-" \o Fmt(v.d, 2) \o "T"
    \o Fmt(v.h, 2) \o ":" \o Fmt(v.mi, 2) \o ":" \o Fmt(v.s, 2)
    \o (IF v.us # 0 THEN "." \o Fmt(v.us, 6) ELSE "")

DigitVal(c) == CHOOSE n \in 0..9 : ToString(n) = c

RECURSIVE ParseInt(_)
ParseInt(digits) ==
    IF Len(digits) = 0 THEN 0
    ELSE ParseInt(SubSeq(digits, 1, Len(digits) - 1)) * 10
         + DigitVal(Char(digits, Len(digits)))

\* datetime.strptime(label, '%Y-%m-%dT%H:%M:%S') on a label isoformat() made:
\* text after the seconds is unconverted data, a ValueError.
StrpTime(label) ==
    IF Len(label) # 19 THEN ValueError
    ELSE PyDateTime(ParseInt(SubSeq(label, 1, 4)), ParseInt(SubSeq(label, 6, 7)),
                    ParseInt(SubSeq(label, 9, 10)), ParseInt(SubSeq(label, 12, 13)),
                    ParseInt(SubSeq(label, 15, 16)), ParseInt(SubSeq(label, 18, 19)),
                    0)

-----------------------------------------------------------------------------
(* SearchBackend._do_date_facets, for the one field of date_facets.          *)

\* Lines 579-599: the next value of date_range.
NextDateRange(dr, gap_type, gap_value) ==
    CASE gap_type = "year"   -> Replace(dr, dr.y + gap_value, dr.mo)
      [] gap_type = "month"  -> IF dr.mo = 12
                                THEN Replace(dr, dr.y + gap_value, 1)
                                ELSE Replace(dr, dr.y, dr.mo + gap_value)
      [] gap_type = "day"    -> AddSeconds(dr, 86400 * gap_value)
      [] gap_type = "hour"   -> AddSeconds(dr, 3600 * gap_value)
      [] gap_type = "minute" -> AddSeconds(dr, 60 * gap_value)
      [] gap_type = "second" -> AddSeconds(dr, gap_value)
      [] OTHER               -> dr

Bucket(label, count) == [label |-> label, count |-> count]

\* sorted(facet_list, key=lambda n:n[0], reverse=True): by label, largest
\* first, equal labels in their first order.
RECURSIVE InsertDesc(_, _)
InsertDesc(sorted, e) ==
    IF Len(sorted) = 0 THEN <<e>>
    ELSE IF StrLT(sorted[1].label, e.label) THEN <<e>> \o sorted
    ELSE <<sorted[1]>> \o InsertDesc(Tail(sorted), e)

RECURSIVE SortedDesc(_)
SortedDesc(list) ==
    IF Len(list) = 0 THEN <<>>
    ELSE InsertDesc(SortedDesc(SubSeq(list, 1, Len(list) - 1)), list[Len(list)])

\* Lines 606-611: a date that is no datetime is taken at midnight.
AsDateTime(result_date) ==
    IF result_date.t = "datetime" THEN result_date
    ELSE PyDateTime(result_date.y, result_date.mo, result_date.d, 0, 0, 0, 0)

Tally(list, error) == [list |-> list, error |-> error]

\* Lines 612-615: the first bucket, from n on, that result_date is later than
\* is incremented; strptime() of a label may raise ValueError.
RECURSIVE TallyOne(_, _, _)
TallyOne(list, result_date, n) ==
    IF n > Len(list) THEN Tally(list, FALSE)
    ELSE LET start == StrpTime(list[n].label)
         IN  IF start = ValueError THEN Tally(list, TRUE)
             ELSE IF DtLT(start, result_date)
             THEN Tally([list EXCEPT ![n].count = @ + 1], FALSE)
             ELSE TallyOne(list, result_date, n + 1)

\* Lines 603-615: the loop over results; None is no date value.
RECURSIVE TallyAll(_, _)
TallyAll(list, rs) ==
    IF Len(rs) = 0 THEN Tally(list, FALSE)
    ELSE IF rs[1].t = "none" THEN TallyAll(list, Tail(rs))
    ELSE LET one == TallyOne(list, AsDateTime(rs[1]), 1)
         IN  IF one.error THEN one ELSE TallyAll(one.list, Tail(rs))

\* Lines 572-576: the method starts on the facet's parameters.
BeginDateFacets ==
    /\ facet_pc = "idle"
    /\ op' = Op("_do_date_facets", <<>>)
    /\ date_range' = facet_req.start_date
    /\ facet_list' = <<>>
    /\ facet_pc' = "loop"
    /\ UNCHANGED <<facet_req, results>>
    /\ UNCHANGED <<marshal_vars, query_vars, store_vars, search_vars>>

\* Lines 577-599: one iteration of the while loop.
BucketStep ==
    /\ facet_pc = "loop"
    /\ DtLT(date_range, facet_req.end_date)
    /\ facet_list' = Append(facet_list, Bucket(IsoFormat(date_range), 0))
    /\ LET next == NextDateRange(date_range, facet_req.gap_by,
                                 facet_req.gap_amount)
       IN  IF next = ValueError
           THEN facet_pc' = "gen_error" /\ date_range' = date_range
           ELSE facet_pc' = "loop" /\ date_range' = next
    /\ UNCHANGED <<op, facet_req, results>>
    /\ UNCHANGED <<marshal_vars, query_vars, store_vars, search_vars>>

\* Lines 601-617: the loop has ended; the list is sorted and the results tallied.
TallyResults ==
    /\ facet_pc = "loop"
    /\ ~DtLT(date_range, facet_req.end_date)
    /\ LET tally == TallyAll(SortedDesc(facet_list), results)
       IN  /\ facet_list' = tally.list
           /\ facet_pc' = IF tally.error THEN "tally_error" ELSE "done"
    /\ UNCHANGED <<op, facet_req, results, date_range>>
    /\ UNCHANGED <<marshal_vars, query_vars, store_vars, search_vars>>

\* A value of an attribute of a result, as unpickled from the document's
\* data (line 343): its Python type and its repr.
FieldValue(type, repr) == [type |-> type, repr |-> repr]

\* Whether a value can be a dictionary key: a list, the value of a
\* multi-valued field, cannot (TypeError: unhashable type).
Hashable(value) == value.type # "list"

\* dict.get(key, default) and d[key] = value, on a dictionary given by its
\* items.
DictGet(d, key, default) ==
    IF \E item \in d : item[1] = key
    THEN (CHOOSE item \in d : item[1] = key)[2]
    ELSE default

DictSet(d, key, value) == {item \in d : item[1] # key} \cup {<<key, value>>}

\* Lines 534-536: the loop over the results, on the dictionary facet_list.
RECURSIVE FieldTally(_, _, _)
FieldTally(rs, field, d) ==
    IF rs = <<>> THEN [error |-> FALSE, items |-> d]
    ELSE LET field_value == Head(rs)[field]
         IN  IF ~Hashable(field_value)
             THEN [error |-> TRUE, items |-> d]
             ELSE FieldTally(Tail(rs), field,
                             DictSet(d, field_value,
                                     DictGet(d, field_value, 0) + 1))

\* Line 529: _do_field_facets starts on the list of fields in facet_req;
\* facet_list holds facet_dict, an entry per field done.
BeginFieldFacets ==
    /\ facet_pc = "idle"
    /\ op' = Op("_do_field_facets", <<>>)
    /\ facet_list' = <<>>
    /\ facet_pc' = "fields"
    /\ UNCHANGED <<facet_req, results, date_range>>
    /\ UNCHANGED <<marshal_vars, query_vars, store_vars, search_vars>>

\* Lines 531-538: one iteration of the loop over field_facets.
FieldFacetStep ==
    /\ facet_pc = "fields"
    /\ Len(facet_list) < Len(facet_req)
    /\ LET field == facet_req[Len(facet_list) + 1]
           tally == FieldTally(results, field, {})
       IN  IF tally.error
           THEN facet_pc' = "type_error" /\ facet_list' = facet_list
           ELSE /\ facet_pc' = "fields"
                /\ facet_list' = Append(facet_list,
                                        [field |-> field, items |-> tally.items])
    /\ UNCHANGED <<op, facet_req, results, date_range>>
    /\ UNCHANGED <<marshal_vars, query_vars, store_vars, search_vars>>

\* Line 540: return facet_dict
ReturnFieldFacets ==
    /\ facet_pc = "fields"
    /\ Len(facet_list) = Len(facet_req)
    /\ facet_pc' = "done"
    /\ UNCHANGED <<op, facet_req, results, date_range, facet_list>>
    /\ UNCHANGED <<marshal_vars, query_vars, store_vars, search_vars>>

IdleFacet ==
    /\ facet_req = [start_date |-> PyNone, end_date |-> PyNone,
                    gap_by |-> "year", gap_amount |-> 1]
    /\ results = <<>>
    /\ date_range = PyNone
    /\ facet_list = <<>>
    /\ facet_pc = "idle"

-----------------------------------------------------------------------------
(* The index store.  The database's documents are kept in docid order and   *)
(* run-length encoded: an extent stands for n documents of one model with    *)
(* the primary keys lo .. lo+n-1, in that docid order, all built from the    *)
(* same version of the prepared data.  A new document gets the next docid,   *)
(* so it goes to the end; a replaced document keeps its place.               *)

DEFAULT_MAX_RESULTS == 100000

DOCUMENT_ID_TERM_PREFIX == "Q"
DOCUMENT_CUSTOM_TERM_PREFIX == "X"
DOCUMENT_CT_TERM_PREFIX == DOCUMENT_CUSTOM_TERM_PREFIX \o "CONTENTTYPE"

Extent(ct, lo, n, data) == [ct |-> ct, lo |-> lo, n |-> n, data |-> data]

\* The term XCONTENTTYPE<app_name>.<model_name> (lines 220-223, 264-265).
CtTerm(model) ==
    DOCUMENT_CT_TERM_PREFIX \o model.app_label \o "." \o model.module_name

\* database.get_doccount()
RECURSIVE DocCount(_)
DocCount(db) == IF Len(db) = 0 THEN 0 ELSE db[1].n + DocCount(Tail(db))

\* Whether the database holds the document of (ct, pk), found by its
\* identifier term Q<app_name>.<model_name>.<pk>.
Holds(db, ct, pk) ==
    \E i \in 1..Len(db) :
        db[i].ct = ct /\ db[i].lo <= pk /\ pk < db[i].lo + db[i].n

\* The version of the prepared data the document of (ct, pk) was built from.
DataOf(db, ct, pk) ==
    db[CHOOSE i \in 1..Len(db) :
           db[i].ct = ct /\ db[i].lo <= pk /\ pk < db[i].lo + db[i].n].data

\* The encoding is kept canonical: neighbours that continue each other are one
\* extent.
RECURSIVE Normalize(_)
Normalize(db) ==
    IF Len(db) <= 1 THEN db
    ELSE LET a == db[1]
             b == db[2]
         IN  IF a.ct = b.ct /\ a.data = b.data /\ a.lo + a.n = b.lo
             THEN Normalize(<<Extent(a.ct, a.lo, a.n + b.n, a.data)>>
                            \o SubSeq(db, 3, Len(db)))
             ELSE <<a>> \o Normalize(Tail(db))

Max(a, b) == IF a >= b THEN a ELSE b
Min(a, b) == IF a <= b THEN a ELSE b

\* The documents of extent e with a primary key below lo, and those above hi.
Before(e, lo) ==
    IF e.lo < lo THEN <<Extent(e.ct, e.lo, Min(e.n, lo - e.lo), e.data)>> ELSE <<>>

After(e, hi) ==
    IF e.lo + e.n - 1 > hi
    THEN <<Extent(e.ct, Max(e.lo, hi + 1), e.lo + e.n - Max(e.lo, hi + 1), e.data)>>
    ELSE <<>>

Overlaps(e, ct, lo, hi) == e.ct = ct /\ e.lo <= hi /\ lo <= e.lo + e.n - 1

\* database.delete_document(term) for the identifier terms of the primary
\* keys lo..hi of ct.
RECURSIVE DeleteIds(_, _, _, _)
DeleteIds(db, ct, lo, hi) ==
    IF Len(db) = 0 THEN <<>>
    ELSE (IF Overlaps(db[1], ct, lo, hi)
          THEN Before(db[1], lo) \o After(db[1], hi)
          ELSE <<db[1]>>) \o DeleteIds(Tail(db), ct, lo, hi)

\* database.delete_document(term) for a type-marker term: every document
\* that carries the term goes.
RECURSIVE DeleteCtTerm(_, _)
DeleteCtTerm(db, term) ==
    IF Len(db) = 0 THEN <<>>
    ELSE (IF CtTerm(db[1].ct) = term THEN <<>> ELSE <<db[1]>>)
         \o DeleteCtTerm(Tail(db), term)

\* database.delete_document(match.docid) for the first k documents in docid
\* order.
RECURSIVE DeleteFirst(_, _)
DeleteFirst(db, k) ==
    IF k <= 0 \/ Len(db) = 0 THEN db
    ELSE IF db[1].n <= k THEN DeleteFirst(Tail(db), k - db[1].n)
    ELSE <<Extent(db[1].ct, db[1].lo + k, db[1].n - k, db[1].data)>> \o Tail(db)

\* database.replace_document(document_id, document) for the stored documents
\* among the primary keys lo..hi of ct: each is replaced in its place.
RECURSIVE ReplaceStored(_, _, _, _, _)
ReplaceStored(db, ct, lo, hi, data) ==
    IF Len(db) = 0 THEN <<>>
    ELSE (IF Overlaps(db[1], ct, lo, hi)
          THEN Before(db[1], lo)
               \o <<Extent(ct, Max(db[1].lo, lo),
                           Min(db[1].lo + db[1].n - 1, hi) - Max(db[1].lo, lo) + 1,
                           data)>>
               \o After(db[1], hi)
          ELSE <<db[1]>>) \o ReplaceStored(Tail(db), ct, lo, hi, data)

\* The end of the extent of db that holds (ct, pk).
EndOfHolder(db, ct, pk) ==
    LET i == CHOOSE j \in 1..Len(db) :
                 db[j].ct = ct /\ db[j].lo <= pk /\ pk < db[j].lo + db[j].n
    IN  db[i].lo + db[i].n - 1

\* The first stored primary key of ct above pk, or hi + 1 when there is none
\* up to hi.
NextStored(db, ct, pk, hi) ==
    LET starts == {db[j].lo : j \in {k \in 1..Len(db) :
                       db[k].ct = ct /\ db[k].lo > pk /\ db[k].lo <= hi}}
    IN  IF starts = {} THEN hi + 1
        ELSE CHOOSE x \in starts : \A y \in starts : x <= y

\* add_document in the place of replace_document: every object of the batch
\* becomes a new document.
AddAll(db, ct, from, hi, data) ==
    IF from > hi THEN <<>> ELSE <<Extent(ct, from, hi - from + 1, data)>>

\* database.replace_document(document_id, document) for the primary keys
\* from..hi of ct that db does not hold: each is a new document, added in the
\* order of the iterable.
RECURSIVE AddMissing(_, _, _, _, _)
AddMissing(db, ct, from, hi, data) ==
    IF from > hi THEN <<>>
    ELSE IF Holds(db, ct, from)
    THEN AddMissing(db, ct, EndOfHolder(db, ct, from) + 1, hi, data)
    ELSE LET stop == NextStored(db, ct, from, hi)
         IN  <<Extent(ct, from, stop - from, data)>>
             \o AddMissing(db, ct, stop, hi, data)

-----------------------------------------------------------------------------
(* SearchBackend: build_schema, _database, update, remove, clear and         *)
(* document_count.                                                           *)

\* A field declaration of site.all_searchfields(): its name, its document and
\* indexed flags and its field class.
FieldDecl(field_name, document, indexed, class) ==
    [field_name |-> field_name, document |-> document, indexed |-> indexed,
     class |-> class]

SiteFields ==
    <<FieldDecl("text", TRUE, TRUE, "CharField"),
      FieldDecl("slug", FALSE, FALSE, "CharField"),
      FieldDecl("pub_date", FALSE, TRUE, "DateField"),
      FieldDecl("flag", FALSE, TRUE, "BooleanField")>>

\* Lines 482-496: the type and multiplicity of a field class.
FieldType(class) ==
    CASE class \in {"DateField", "DateTimeField"} -> "date"
      [] class = "IntegerField" -> "long"
      [] class = "FloatField"   -> "float"
      [] class = "BooleanField" -> "boolean"
      [] OTHER                  -> "text"

RECURSIVE SchemaFields(_, _)
SchemaFields(fields, column) ==
    IF Len(fields) = 0 THEN <<>>
    ELSE IF fields[1].indexed
    THEN <<[field_name |-> fields[1].field_name,
            type |-> FieldType(fields[1].class),
            multi_valued |-> IF fields[1].class = "MultiValueField"
                             THEN "true" ELSE "false",
            column |-> column]>> \o SchemaFields(Tail(fields), column + 1)
    ELSE SchemaFields(Tail(fields), column)

RECURSIVE ContentFieldName(_, _)
ContentFieldName(fields, name) ==
    IF Len(fields) = 0 THEN name
    ELSE ContentFieldName(Tail(fields),
                          IF fields[1].document THEN fields[1].field_name ELSE name)

\* SearchBackend.build_schema(fields)
build_schema(fields) ==
    [content_field_name |-> ContentFieldName(fields, ""),
     schema |-> SchemaFields(fields, 0)]

\* self.schema and self.content_field_name before the first open, and the
\* metadata of a database no write-mode open has touched.
NoSchema == [content_field_name |-> "", schema |-> <<>>]

\* _database(writable=True): the schema is built from the declarations, the
\* database is created if it is missing, and the schema is written to it.
OpenWritable(fields) ==
    /\ backend' = build_schema(fields)
    /\ db_exists' = TRUE
    /\ metadata' = build_schema(fields)

\* _database(writable=True) with the schema rebuilt from the declarations
\* SiteFields on a read-mode open too.
OpenReadableRebuilt == backend' = build_schema(SiteFields)

\* _database(): the read-mode open of an existing database loads the schema
\* and the content field name from the metadata (lines 690-693).
OpenReadable == backend' = metadata

\* What search() and more_like_this() leave when another method ran last.
NoResponse == [t |-> "none"]

\* The methods that return no response and emit no warning.
NoReturn ==
    /\ response' = NoResponse
    /\ warned' = FALSE

\* The batches update() is given: the instances of one model with the primary
\* keys lo .. lo+n-1, in that order, whose prepared data is of one version.
Batch(ct, lo, n) == [ct |-> ct, lo |-> lo, n |-> n]

\* Lines 201-224: the loop over the iterable.
UpdatedStore(db, batch, data) ==
    IF batch.n = 0 THEN db
    ELSE Normalize(
             ReplaceStored(db, batch.ct, batch.lo, batch.lo + batch.n - 1, data)
             \o AddMissing(db, batch.ct, batch.lo, batch.lo + batch.n - 1, data))

\* The whole batch, whichever object fails.
WrittenWhole(batch, failing) == batch

\* Lines 200-228: the objects the loop gets through.  failing is the place
\* in the batch of the first object whose values raise UnicodeDecodeError
\* (force_unicode, lines 211-212), 0 when none does; the except clause
\* around the loop ends the loop there.
Written(batch, failing) ==
    IF failing = 0 THEN batch ELSE Batch(batch.ct, batch.lo, failing - 1)

\* SearchBackend.update(index, iterable); the UnicodeDecodeError is caught
\* and the method returns.
update(batch, data, fields, failing) ==
    /\ op' = Op("update", <<batch, data, failing>>)
    /\ OpenWritable(fields)
    /\ NoReturn
    /\ store' = UpdatedStore(store, Written(batch, failing), data)
    /\ last_count' = -1
    /\ UNCHANGED <<marshal_vars, query_vars, facet_vars>>

\* SearchBackend.remove(obj)
remove(ct, pk, fields) ==
    /\ op' = Op("remove", <<>>)
    /\ OpenWritable(fields)
    /\ NoReturn
    /\ store' = Normalize(DeleteIds(store, ct, pk, pk))
    /\ last_count' = -1
    /\ UNCHANGED <<marshal_vars, query_vars, facet_vars>>

\* Lines 262-266: one delete_document per model.
RECURSIVE ClearModels(_, _)
ClearModels(db, ms) ==
    IF Len(ms) = 0 THEN db
    ELSE ClearModels(DeleteCtTerm(db, CtTerm(ms[1])), Tail(ms))

\* Lines 256-266: without models the matches of the query '*' are deleted,
\* and get_mset(0, DEFAULT_MAX_RESULTS) returns no more than
\* DEFAULT_MAX_RESULTS of them, in docid order.
ClearedStore(db, ms) ==
    IF Len(ms) = 0
    THEN DeleteFirst(db, DEFAULT_MAX_RESULTS)
    ELSE Normalize(ClearModels(db, ms))

\* SearchBackend.clear(models)
clear(ms, fields) ==
    /\ op' = Op("clear", ms)
    /\ OpenWritable(fields)
    /\ NoReturn
    /\ store' = ClearedStore(store, ms)
    /\ last_count' = -1
    /\ UNCHANGED <<marshal_vars, query_vars, facet_vars>>

\* SearchBackend.document_count(): a database that cannot be opened counts 0;
\* the read-mode open loads the schema from the metadata.
document_count ==
    /\ op' = Op("document_count", <<>>)
    /\ NoReturn
    /\ IF db_exists
       THEN /\ OpenReadable
            /\ last_count' = DocCount(store)
       ELSE /\ backend' = backend
            /\ last_count' = 0
    /\ UNCHANGED <<store, db_exists, metadata>>
    /\ UNCHANGED <<marshal_vars, query_vars, facet_vars>>

\* SearchBackend.delete_index(): the index files and their folder go.
delete_index ==
    /\ op' = Op("delete_index", <<>>)
    /\ NoReturn
    /\ store' = <<>>
    /\ db_exists' = FALSE
    /\ metadata' = NoSchema
    /\ last_count' = -1
    /\ UNCHANGED backend
    /\ UNCHANGED <<marshal_vars, query_vars, facet_vars>>

\* SearchBackend.__init__: another adapter instance on the same index path.
\* It has opened no database yet.
new_instance ==
    /\ op' = Op("__init__", <<>>)
    /\ NoReturn
    /\ backend' = NoSchema
    /\ last_count' = -1
    /\ UNCHANGED <<store, db_exists, metadata>>
    /\ UNCHANGED <<marshal_vars, query_vars, facet_vars>>

-----------------------------------------------------------------------------
(* search and more_like_this.  A document carries its identifier term, its  *)
(* type-marker term and the terms the term generator makes of its prepared  *)
(* data; a match set is kept like the store, in docid order.                 *)

\* SearchBackend.get_identifier: Q<app_label>.<module_name>.<pk>
get_identifier(ct, pk) ==
    DOCUMENT_ID_TERM_PREFIX \o ct.app_label \o "." \o ct.module_name
        \o "." \o ToString(pk)

\* Lines 207-212: the words of the prepared data of one version, as they
\* are and under the prefix of the field text.
TextTerms(data) ==
    {"v" \o ToString(data),
     DOCUMENT_CUSTOM_TERM_PREFIX \o "TEXT" \o "v" \o ToString(data)}

\* The first k documents of a match set.
RECURSIVE TakeFirst(_, _)
TakeFirst(db, k) ==
    IF k <= 0 \/ Len(db) = 0 THEN <<>>
    ELSE IF db[1].n <= k THEN <<db[1]>> \o TakeFirst(Tail(db), k - db[1].n)
    ELSE <<Extent(db[1].ct, db[1].lo, k, db[1].data)>>

\* The documents that carry one of the terms, none of which is an
\* identifier term.
RECURSIVE WithTerms(_, _)
WithTerms(db, terms) ==
    IF Len(db) = 0 THEN <<>>
    ELSE (IF ({CtTerm(db[1].ct)} \cup TextTerms(db[1].data)) \cap terms # {}
          THEN <<db[1]>> ELSE <<>>) \o WithTerms(Tail(db), terms)

\* Whether s begins with prefix (str.startswith).
StartsWith(s, prefix) ==
    Len(s) >= Len(prefix) /\ SubSeq(s, 1, Len(prefix)) = prefix

\* SearchBackend._query: '*' matches every document; django_ct is the
\* boolean prefix of the type-marker term (line 822).
Matches(db, query_string) ==
    IF query_string = "*" THEN db
    ELSE WithTerms(db, {DOCUMENT_CT_TERM_PREFIX
                          \o SubSeq(query_string, Len("django_ct:") + 1,
                                     Len(query_string))})

\* What search() and more_like_this() did: the exception raised, if any, or
\* the dictionary returned; terms are the expansion terms of the query that
\* more_like_this derived.
Response(method, raised, rs, hits, queries, terms) ==
    [t |-> method, raised |-> raised, results |-> rs, hits |-> hits,
     queries |-> queries, terms |-> terms]

\* No query string is empty.
NeverEmpty(query_string) == FALSE

\* Line 316: not query_string
EmptyQuery(query_string) == query_string = ""

\* self.search(query)['hits'] on an existing database, without facets.
SearchHits(db, query_string) ==
    IF EmptyQuery(query_string) THEN 0 ELSE DocCount(Matches(db, query_string))

\* The argument query_facets: None, or a dictionary given by its items, each
\* a field and a query.
NoQueryFacets == [t |-> "none", items |-> <<>>]

QueryFacetsDict(items) == [t |-> "dict", items |-> items]

\* SearchBackend._do_query_facets(results, query_facets)
_do_query_facets(db, query_facets) ==
    [i \in 1..Len(query_facets.items) |->
        [field |-> query_facets.items[i].field,
         query |-> query_facets.items[i].query,
         hits |-> SearchHits(db, query_facets.items[i].query)]]

\* SearchBackend.search(query_string, query_facets=...), the other arguments
\* at their defaults.
search(query_string, query_facets) ==
    /\ op' = Op("search", <<query_string, query_facets>>)
    /\ last_count' = -1
    /\ IF EmptyQuery(query_string)
       THEN /\ response' = Response("search", "none", <<>>, 0, <<>>, {})
            /\ warned' = FALSE
            /\ backend' = backend
       ELSE /\ warned' = (query_facets.t # "none")
            /\ IF db_exists
               THEN /\ OpenReadable
                    /\ response' =
                         Response("search", "none",
                                  TakeFirst(Matches(store, query_string),
                                            DEFAULT_MAX_RESULTS),
                                  DocCount(Matches(store, query_string)),
                                  IF Len(query_facets.items) > 0
                                  THEN _do_query_facets(store, query_facets)
                                  ELSE <<>>,
                                  {})
               ELSE /\ backend' = backend
                    /\ response' = Response("search", "DatabaseOpeningError",
                                             <<>>, 0, <<>>, {})
    /\ UNCHANGED <<store, db_exists, metadata>>
    /\ UNCHANGED <<marshal_vars, query_vars, facet_vars>>

\* A decider that accepts every term.
ExpandAll(term) == TRUE

\* XHExpandDecider.__call__(term)
XHExpandDecider(term) == ~StartsWith(term, DOCUMENT_CT_TERM_PREFIX)

\* Lines 420-427: the terms of the documents that carry the identifier, the
\* identifier itself left out as the term of the query, those kept that the
\* decider accepts.
ExpandTerms(db, ct, pk) ==
    IF Holds(db, ct, pk)
    THEN {term \in {CtTerm(ct)} \cup TextTerms(DataOf(db, ct, pk)) :
              XHExpandDecider(term)}
    ELSE {}

\* Lines 425-437: the documents with one of the expansion terms, without the
\* one of the identifier, narrowed by the additional query.
SimilarTo(db, ct, pk, additional_query_string) ==
    LET similar == DeleteIds(WithTerms(db, ExpandTerms(db, ct, pk)), ct, pk, pk)
    IN  IF additional_query_string = "" THEN similar
        ELSE Matches(similar, additional_query_string)

\* SearchBackend.more_like_this(model_instance, additional_query_string),
\* the offsets at their defaults.
more_like_this(ct, pk, additional_query_string) ==
    /\ op' = Op("more_like_this", <<ct, pk, additional_query_string>>)
    /\ last_count' = -1
    /\ warned' = FALSE
    /\ IF db_exists
       THEN /\ OpenReadable
            /\ response' =
                 LET found == SimilarTo(store, ct, pk, additional_query_string)
                 IN  Response("more_like_this", "none",
                              TakeFirst(found, DEFAULT_MAX_RESULTS),
                              DocCount(found), <<>>, ExpandTerms(store, ct, pk))
       ELSE /\ backend' = backend
            /\ response' = Response("more_like_this", "DatabaseOpeningError",
                                     <<>>, 0, <<>>, {})
    /\ UNCHANGED <<store, db_exists, metadata>>
    /\ UNCHANGED <<marshal_vars, query_vars, facet_vars>>

IdleStore ==
    /\ response = NoResponse
    /\ warned = FALSE
    /\ store = <<>>
    /\ db_exists = FALSE
    /\ metadata = NoSchema
    /\ backend = NoSchema
    /\ last_count = -1

-----------------------------------------------------------------------------
(* XHValueRangeProcessor.__call__(begin, end)                                *)

\* s.find(c): the index of the first c in s, counted from 0, or -1.
RECURSIVE FindFrom(_, _, _)
FindFrom(s, c, i) ==
    IF i > Len(s) THEN -1
    ELSE IF Char(s, i) = c THEN i - 1
    ELSE FindFrom(s, c, i + 1)

Find(s, c) == FindFrom(s, c, 1)

\* s * n
RECURSIVE Repeat(_, _)
Repeat(s, n) == IF n <= 0 THEN "" ELSE s \o Repeat(s, n - 1)

\* sys.maxint and -sys.maxint - 1 of a 64-bit build.
sys_maxint == PyInt(FALSE, "9223372036854775807")

sys_minint == PyInt(TRUE, "9223372036854775808")

AllDigits(s) == Len(s) > 0 /\ \A i \in 1..Len(s) : Contains("0123456789", Char(s, i))

\* long(x): an integer as it is, a string parsed; ValueError when the string
\* is no integer literal.
ToLong(x) ==
    IF x.t = "int" THEN x
    ELSE IF AllDigits(x.s) THEN PyInt(FALSE, x.s)
    ELSE IF Len(x.s) > 1 /\ Char(x.s, 1) = "-" /\ AllDigits(Tail(x.s))
    THEN PyInt(TRUE, Tail(x.s))
    ELSE ValueError

\* float(x): a float as it is, a string parsed; ValueError when the string is
\* no number.
ToFloat(x) ==
    IF x.t = "float" THEN x
    ELSE IF /\ Len(x.s) > 0
            /\ \A i \in 1..Len(x.s) : Contains("-.0123456789", Char(x.s, i))
            /\ \E i \in 1..Len(x.s) : Contains("0123456789", Char(x.s, i))
    THEN PyFloat(x.s)
    ELSE ValueError

\* str(x) of a bound: a string as it is.
BoundStr(x) == x.s

\* Lines 68-76: the low bound, the smallest value of the type when it is
\* omitted.
RangeBegin(type, begin) ==
    IF begin # "" THEN PyStr(begin)
    ELSE CASE type = "text"  -> PyStr("a")
           [] type = "long"  -> sys_minint
           [] type = "float" -> PyFloat("-inf")
           [] type \in {"date", "datetime"} -> PyStr("00010101000000")
           [] OTHER -> PyStr(begin)

\* Lines 77-85: the high bound; the branch is the elif of the test of the
\* low bound.
RangeEnd(type, begin, end) ==
    IF begin # "" /\ end = "*"
    THEN CASE type = "text"  -> PyStr(Repeat("z", 100))
           [] type = "long"  -> sys_maxint
           [] type = "float" -> PyFloat("inf")
           [] type \in {"date", "datetime"} -> PyStr("99990101000000")
           [] OTHER -> PyStr(end)
    ELSE PyStr(end)

\* Lines 86-92: the bounds of a float or long field are converted and
\* marshalled; the tuple (column, low, high) is returned.
RangeTuple(field_dict, begin, end) ==
    LET b == RangeBegin(field_dict.type, begin)
        e == RangeEnd(field_dict.type, begin, end)
        conv(x) == CASE field_dict.type = "float" -> ToFloat(x)
                     [] field_dict.type = "long"  -> ToLong(x)
                     [] OTHER -> x
    IN  IF conv(b) = ValueError \/ conv(e) = ValueError THEN ValueError
        ELSE [t |-> "tuple", column |-> field_dict.column,
              begin |-> IF field_dict.type \in {"float", "long"}
                        THEN _marshal_value(conv(b)) ELSE BoundStr(b),
              end |-> IF field_dict.type \in {"float", "long"}
                      THEN _marshal_value(conv(e)) ELSE BoundStr(e)]

\* Lines 66-92: the first field of the schema with the name decides; without
\* one the call returns None.
RECURSIVE RangeLookup(_, _, _, _)
RangeLookup(schema, field_name, begin, end) ==
    IF Len(schema) = 0 THEN PyNone
    ELSE IF schema[1].field_name = field_name
    THEN RangeTuple(schema[1], begin, end)
    ELSE RangeLookup(Tail(schema), field_name, begin, end)

\* XHValueRangeProcessor.__call__(begin, end) with self.sb.schema
XHValueRangeProcessor(schema, begin, end) ==
    LET colon == Find(begin, ":")
    IN  RangeLookup(schema, SubSeq(begin, 1, colon),
                    SubSeq(begin, colon + 2, Len(begin)), end)

-----------------------------------------------------------------------------
(* The range processor on the range tokens of a schema with a field of each *)
(* type.                                                                     *)

RangeFields ==
    <<FieldDecl("name", TRUE, TRUE, "CharField"),
      FieldDecl("age", FALSE, TRUE, "IntegerField"),
      FieldDecl("price", FALSE, TRUE, "FloatField"),
      FieldDecl("pub_date", FALSE, TRUE, "DateField"),
      FieldDecl("flag", FALSE, TRUE, "BooleanField")>>

RangeSchema == build_schema(RangeFields).schema

\* Bounds a query may give for a field of the type.
RangeValues(type) ==
    CASE type = "text"  -> {"abc", "b", "zz"}
      [] type = "long"  -> {"5", "-3", "1000000000000"}
      [] type = "float" -> {"1.5", "-0.5", "2"}
      [] type = "date"  -> {"20090101000000", "20091231235959", "20100101000000"}
      [] OTHER          -> {"t", "f"}

\* The token pairs '<field_name>:[low]' and '[high|*]' for the fields of the
\* schema, and one for a field the schema does not have.
RangeTokens ==
    UNION {{<<RangeSchema[i].field_name \o ":" \o lo, hi>> :
               lo \in {""} \cup RangeValues(RangeSchema[i].type),
               hi \in {"*"} \cup RangeValues(RangeSchema[i].type)} :
           i \in 1..Len(RangeSchema)}
    \cup {<<"nofield:x", "y">>}

InitRange ==
    /\ op = Op("none", <<>>)
    /\ mv_in = <<>> /\ mv_out = <<>>
    /\ range_in \in {[schema |-> RangeSchema, begin |-> p[1], end |-> p[2]] :
                        p \in RangeTokens}
    /\ range_out = PyNone
    /\ IdleQuery /\ IdleFacet /\ IdleStore

\* vrp(begin, end), as the query parser calls it for a range
range_call ==
    /\ op' = Op("XHValueRangeProcessor", <<>>)
    /\ range_out' = XHValueRangeProcessor(range_in.schema, range_in.begin,
                                           range_in.end)
    /\ UNCHANGED <<mv_in, mv_out, range_in>>
    /\ UNCHANGED <<query_vars, facet_vars, store_vars, search_vars>>

SpecRange == InitRange /\ [][range_call]_vars

-----------------------------------------------------------------------------
(* The value marshaller on pairs of values of one type.                      *)

IntMagnitudes == {"3", "5", "12", "999999999999", "1000000000000"}

MarshalValues ==
    {PyInt(FALSE, "0")}
    \cup {PyInt(n, m) : n \in BOOLEAN, m \in IntMagnitudes}
    \cup {PyBool(b) : b \in BOOLEAN}
    \cup {PyDate(2008, 12, 31), PyDate(2009, 1, 1), PyDate(2009, 2, 10),
          PyDate(2010, 1, 1)}
    \cup {PyDateTime(2009, 1, 1, 0, 0, 0, 0), PyDateTime(2009, 1, 1, 0, 0, 0, 1),
          PyDateTime(2009, 1, 1, 0, 0, 0, 500000),
          PyDateTime(2009, 1, 1, 0, 0, 1, 0), PyDateTime(2009, 1, 1, 12, 30, 0, 0),
          PyDateTime(2008, 12, 31, 23, 59, 59, 999999)}

InitMarshal ==
    /\ op = Op("none", <<>>)
    /\ mv_in \in {p \in MarshalValues \X MarshalValues : p[1].t = p[2].t}
    /\ mv_out = <<>>
    /\ IdleRange
    /\ IdleQuery /\ IdleFacet /\ IdleStore

\* self._marshal_value(value), on both values of the pair.
marshal ==
    /\ op' = Op("_marshal_value", <<>>)
    /\ mv_out' = <<_marshal_value(mv_in[1]), _marshal_value(mv_in[2])>>
    /\ UNCHANGED <<mv_in, range_in, range_out>>
    /\ UNCHANGED <<query_vars, facet_vars, store_vars, search_vars>>

SpecMarshal == InitMarshal /\ [][marshal]_vars

-----------------------------------------------------------------------------
(* The query compiler on the chains and model lists above.                   *)

InitQuery ==
    /\ op = Op("none", <<>>)
    /\ query_filters \in Chains
    /\ models \in ModelLists
    /\ query = ""
    /\ final_query = ""
    /\ IdleMarshal /\ IdleFacet /\ IdleStore

SpecQuery == InitQuery /\ [][build_query]_vars

-----------------------------------------------------------------------------
(* The date facets on a set of requests and result lists.                    *)

\* Bounds of the facet requests and of the result lists.
MaxGap == 2
MaxResults == 2

Midnight(y, mo, d) == PyDateTime(y, mo, d, 0, 0, 0, 0)

\* gap_by with a start_date and an end_date, start_date < end_date.
FacetPeriods ==
    {<<"year", Midnight(2008, 1, 1), Midnight(2010, 6, 1)>>,
     <<"month", Midnight(2009, 1, 1), Midnight(2009, 3, 1)>>,
     <<"month", Midnight(2009, 11, 1), Midnight(2010, 2, 1)>>,
     <<"month", Midnight(2009, 12, 1), Midnight(2010, 3, 1)>>,
     <<"day", Midnight(2009, 2, 27), Midnight(2009, 3, 2)>>,
     <<"day", PyDateTime(2009, 1, 1, 0, 0, 0, 500000), Midnight(2009, 1, 3)>>,
     <<"hour", PyDateTime(2008, 12, 31, 22, 0, 0, 0),
               PyDateTime(2009, 1, 1, 1, 0, 0, 0)>>,
     <<"minute", PyDateTime(2008, 12, 31, 23, 58, 0, 0),
                 PyDateTime(2009, 1, 1, 0, 1, 0, 0)>>,
     <<"second", PyDateTime(2008, 12, 31, 23, 59, 58, 0),
                 PyDateTime(2009, 1, 1, 0, 0, 1, 0)>>}

FacetRequests ==
    {[gap_by |-> p[1], start_date |-> p[2], end_date |-> p[3], gap_amount |-> g] :
        p \in FacetPeriods, g \in 1..MaxGap}

\* The date values of the results: dates, datetimes and None.
ResultDates ==
    {PyNone, PyDate(2009, 2, 15), PyDate(2009, 1, 1), PyDate(2008, 12, 31),
     Midnight(2009, 2, 1), PyDateTime(2009, 2, 1, 0, 0, 0, 1),
     PyDateTime(2009, 1, 1, 0, 0, 0, 0), PyDateTime(2007, 5, 5, 12, 0, 0, 0)}

ResultLists == UNION {[1..n -> ResultDates] : n \in 0..MaxResults}

InitFacet ==
    /\ op = Op("none", <<>>)
    /\ facet_req \in FacetRequests
    /\ results \in ResultLists
    /\ date_range = PyNone
    /\ facet_list = <<>>
    /\ facet_pc = "idle"
    /\ IdleMarshal /\ IdleQuery /\ IdleStore

NextFacet == BeginDateFacets \/ BucketStep \/ TallyResults

SpecFacet == InitFacet /\ [][NextFacet]_vars

-----------------------------------------------------------------------------
(* Single range filters on an integer field.                                 *)

\* Bound: the integer values of the filters are 0 .. MaxBound.
MaxBound == 5

RangeOps == {"gt", "gte", "lt", "lte"}

RangeFilters ==
    {Filter("pub", o, PyInt(FALSE, ToString(v)), c, n) :
        o \in RangeOps, v \in 0..MaxBound, c \in Connectors, n \in BOOLEAN}

InitRangeFilter ==
    /\ op = Op("none", <<>>)
    /\ query_filters \in {<<f>> : f \in RangeFilters}
    /\ models = <<>>
    /\ query = ""
    /\ final_query = ""
    /\ IdleMarshal /\ IdleFacet /\ IdleStore

NextRangeFilter == build_query

SpecRangeFilter == InitRangeFilter /\ [][NextRangeFilter]_vars

-----------------------------------------------------------------------------
(* Date facets whose gap may not advance.                                    *)

\* Bound: the iterations of the bucket loop that are followed.
MaxBuckets == 4

\* Periods under a gap_by the method does not know ('week'), and under no
\* gap_by at all: facet_params.get('gap_by') is None, written "None".
UnknownPeriods ==
    {<<"week", Midnight(2009, 1, 1), Midnight(2009, 1, 15)>>,
     <<"None", Midnight(2009, 1, 1), Midnight(2009, 3, 1)>>}

\* gap_amount from 0 on.
LoopRequests ==
    {[gap_by |-> p[1], start_date |-> p[2], end_date |-> p[3], gap_amount |-> g] :
        p \in FacetPeriods \cup UnknownPeriods, g \in 0..MaxGap}

InitFacetLoop ==
    /\ op = Op("none", <<>>)
    /\ facet_req \in LoopRequests
    /\ results \in {<<>>, <<PyDate(2009, 2, 15)>>}
    /\ date_range = PyNone
    /\ facet_list = <<>>
    /\ facet_pc = "idle"
    /\ IdleMarshal /\ IdleQuery /\ IdleStore

\* The iterations of the loop up to the bound.
BoundedBucketStep == Len(facet_list) < MaxBuckets /\ BucketStep

NextFacetLoop == BeginDateFacets \/ BoundedBucketStep \/ TallyResults

SpecFacetLoop == InitFacetLoop /\ [][NextFacetLoop]_vars

-----------------------------------------------------------------------------
(* Single filters whose values hold spaces, tabs and line feeds.             *)

\* Scalar values: words, a phrase, strings with a tab or a line feed, the
\* space alone, an integer and a boolean.
QuoteScalars ==
    {PyStr("open"), PyStr("two words"), PyStr("tab\tbed"), PyStr("line\nfeed"),
     PyStr(" "), PyInt(FALSE, "5"), PyBool(TRUE)}

QuoteFilters ==
    {Filter("content", "exact", v, c, n) :
        v \in QuoteScalars, c \in Connectors, n \in BOOLEAN}
    \cup {Filter("status", o, v, c, n) : o \in FilterOps,
            v \in QuoteScalars, c \in Connectors, n \in BOOLEAN}
    \cup {Filter("status", "in", v, c, n) :
            v \in SeqValues, c \in Connectors, n \in BOOLEAN}

InitQuote ==
    /\ op = Op("none", <<>>)
    /\ query_filters \in {<<f>> : f \in QuoteFilters}
    /\ models = <<>>
    /\ query = ""
    /\ final_query = ""
    /\ IdleMarshal /\ IdleFacet /\ IdleStore

NextQuote == build_query

SpecQuote == InitQuote /\ [][NextQuote]_vars

-----------------------------------------------------------------------------
(* Field facets over result lists.                                           *)

\* The results of documents with an integer field and a multi-valued field:
\* the values of 'name' are integers, those of 'sites' an integer or a list.
FacetResults ==
    {[name |-> FieldValue("int", n), sites |-> v] :
        n \in {"1", "2"},
        v \in {FieldValue("int", "1"), FieldValue("list", "[1, 2]")}}

FacetResultLists == UNION {[1..n -> FacetResults] : n \in 0..MaxResults}

\* field_facets: lists of field names, none twice.
FieldFacets == {<<"name">>, <<"sites">>, <<"name", "sites">>}

InitFieldFacet ==
    /\ op = Op("none", <<>>)
    /\ facet_req \in FieldFacets
    /\ results \in FacetResultLists
    /\ date_range = PyNone
    /\ facet_list = <<>>
    /\ facet_pc = "idle"
    /\ IdleMarshal /\ IdleQuery /\ IdleStore

NextFieldFacet == BeginFieldFacets \/ FieldFacetStep \/ ReturnFieldFacets

SpecFieldFacet == InitFieldFacet /\ [][NextFieldFacet]_vars

-----------------------------------------------------------------------------
(* The backend on a store.                                                   *)

\* Bounds: the primary keys of the single instances and the versions of
\* their prepared data.
MaxPk == 2
MaxData == 2

\* The primary keys of the instances of a model: MaxPk of the first model,
\* one of the other.
Pks(ct) == IF ct = Model("core", "mockmodel") THEN 1..MaxPk ELSE {1}

\* The batches of single instances and the batch of all instances of the
\* first model.
SmallBatches ==
    UNION {{Batch(ct, pk, 1) : pk \in Pks(ct)} : ct \in AllModels}
    \cup {Batch(Model("core", "mockmodel"), 1, MaxPk)}

\* One batch holds more instances than the constant DEFAULT_MAX_RESULTS.

Batches ==
    SmallBatches
    \cup {Batch(Model("core", "mockmodel"), 1, DEFAULT_MAX_RESULTS + 1)}

ClearArgs == UNION {[1..n -> AllModels] : n \in 0..1}

Init ==
    /\ op = Op("none", <<>>)
    /\ IdleMarshal /\ IdleQuery /\ IdleFacet /\ IdleStore

\* The large batch is loaded into an empty index only, which keeps the
\* reachable stores finite.
Next ==
    \/ \E batch \in Batches, data \in 1..MaxData :
          /\ batch.n > MaxPk => store = <<>>
          /\ update(batch, data, SiteFields, 0)
    \/ \E ct \in AllModels : \E pk \in Pks(ct) : remove(ct, pk, SiteFields)
    \/ \E ms \in ClearArgs : clear(ms, SiteFields)
    \/ document_count

Spec == Init /\ [][Next]_vars

\* The writes on a store of few documents.
NextUpsert ==
    \/ \E batch \in SmallBatches, data \in 1..MaxData :
          update(batch, data, SiteFields, 0)
    \/ \E ct \in AllModels : \E pk \in Pks(ct) : remove(ct, pk, SiteFields)
    \/ \E ms \in ClearArgs : clear(ms, SiteFields)
    \/ document_count

SpecUpsert == Init /\ [][NextUpsert]_vars

\* The updates whose batch may hold an object that does not decode, and the
\* removals.
AbortBatches ==
    {Batch(Model("core", "mockmodel"), 1, n) : n \in 1..MaxPk}
    \cup {Batch(ct, 1, 1) : ct \in AllModels}

NextAbort ==
    \/ \E batch \in AbortBatches, data \in 1..MaxData :
          \E failing \in 0..batch.n : update(batch, data, SiteFields, failing)
    \/ \E ct \in AllModels : \E pk \in Pks(ct) : remove(ct, pk, SiteFields)

SpecAbort == Init /\ [][NextAbort]_vars

-----------------------------------------------------------------------------
(* The schema under declarations that change between the opens, on a store   *)
(* of one entity of each model.                                              *)

\* Declarations with one more indexed field in front: the columns of the
\* fields of SiteFields move by one.
MoreFields ==
    <<FieldDecl("name", FALSE, TRUE, "CharField")>> \o SiteFields

\* What site.all_searchfields() returns at one open or another.
Declarations == {SiteFields, MoreFields}

\* The query strings handed to search and, as the additional query, to
\* more_like_this.
QueryStrings == {"", "*", "django_ct:core.mockmodel"}

NextSchema ==
    \/ \E fields \in Declarations, ct \in AllModels :
          update(Batch(ct, 1, 1), 1, fields, 0)
    \/ \E fields \in Declarations, ct \in AllModels : remove(ct, 1, fields)
    \/ \E fields \in Declarations, ms \in ClearArgs : clear(ms, fields)
    \/ document_count
    \/ \E query_string \in QueryStrings : search(query_string, NoQueryFacets)
    \/ \E ct \in AllModels, additional_query_string \in QueryStrings :
          more_like_this(ct, 1, additional_query_string)
    \/ delete_index
    \/ new_instance

SpecSchema == Init /\ [][NextSchema]_vars

-----------------------------------------------------------------------------
(* Searches on a store of few documents.                                     *)

\* query_facets: None, the empty dictionary, or one field with its query.
QueryFacets ==
    {NoQueryFacets, QueryFacetsDict(<<>>)}
    \cup {QueryFacetsDict(<<[field |-> "name", query |-> q]>>) : q \in QueryStrings}

NextSearch ==
    \/ \E batch \in SmallBatches, data \in 1..MaxData :
          update(batch, data, SiteFields, 0)
    \/ \E ct \in AllModels : \E pk \in Pks(ct) : remove(ct, pk, SiteFields)
    \/ \E query_string \in QueryStrings, query_facets \in QueryFacets :
          search(query_string, query_facets)
    \/ \E ct \in AllModels, additional_query_string \in QueryStrings :
          \E pk \in Pks(ct) : more_like_this(ct, pk, additional_query_string)

SpecSearch == Init /\ [][NextSearch]_vars

-----------------------------------------------------------------------------
(* Properties of the value marshaller.                                       *)

\* a < b on the magnitudes of two integers.
MagLT(a, b) == Len(a) < Len(b) \/ (Len(a) = Len(b) /\ StrLT(a, b))

\* a < b on two values of one type.
ValueLT(a, b) ==
    CASE a.t = "int"  -> IF a.neg # b.neg THEN a.neg
                         ELSE IF a.neg THEN MagLT(b.mag, a.mag)
                         ELSE MagLT(a.mag, b.mag)
      [] a.t = "bool" -> ~a.b /\ b.b
      [] a.t = "date" -> SeqLT(<<a.y, a.mo, a.d>>, <<b.y, b.mo, b.d>>)
      [] OTHER        -> DtLT(a, b)

\* C1: for every pair of values a < b of one supported type (integers,
\* negative and of more than 12 digits too, dates, datetimes, booleans),
\* _marshal_value(a) <= _marshal_value(b) in string order.
C1_MarshalOrder ==
    (mv_out # <<>> /\ ValueLT(mv_in[1], mv_in[2]))
        => StrLE(mv_out[1], mv_out[2])

-----------------------------------------------------------------------------
(* Properties of the query compiler.                                         *)

Built == op.name = "build_query"

\* The string s begins with the token tok.
StartsWithToken(s, tok) ==
    s = tok \/ (Len(s) > Len(tok) /\ SubSeq(s, 1, Len(tok) + 1) = tok \o " ")

\* The emission table of the query compiler: operator by negation.
EmissionTable(operator, negated, F, V) ==
    CASE operator = "exact"      -> IF negated THEN "NOT " \o F \o ":" \o V
                                    ELSE F \o ":" \o V
      [] operator = "gte"        -> IF negated THEN "NOT " \o F \o ":" \o V \o "..*"
                                    ELSE F \o ":" \o V \o "..*"
      [] operator = "gt"         -> IF negated THEN F \o ":.." \o V
                                    ELSE "NOT " \o F \o ":.." \o V
      [] operator = "lte"        -> IF negated THEN "NOT " \o F \o ":.." \o V
                                    ELSE F \o ":.." \o V
      [] operator = "lt"         -> IF negated THEN F \o ":" \o V \o "..*"
                                    ELSE "NOT " \o F \o ":" \o V \o "..*"
      [] operator = "startswith" -> IF negated THEN "NOT " \o F \o ":" \o V \o "*"
                                    ELSE F \o ":" \o V \o "*"

\* C2: a single filter on a named field with a scalar value whose marshalled
\* form V holds no space compiles to the pattern of the emission table for
\* its operator and negation flag; a negated filter that carries a connector
\* keeps the AND of the negation rule in front of the pattern.
C2_EmissionTable ==
    (/\ Built
     /\ Len(query_filters) = 1
     /\ query_filters[1].field # "content"
     /\ query_filters[1].filter_type # "in"
     /\ ~Contains(_marshal_value(query_filters[1].value), " "))
        => LET f == query_filters[1]
           IN  query = (IF f.negated /\ f.connector # "none" THEN "AND " ELSE "")
                       \o EmissionTable(f.filter_type, f.negated, f.field,
                                         _marshal_value(f.value))

\* C2's case: the exact filter on status with the value open.
C2_Witness ==
    /\ Built
    /\ query_filters = <<Filter("status", "exact", PyStr("open"), "none", FALSE)>>
    /\ models = <<>>
    /\ final_query = "status:open"

\* The chain with the connector of its first filter taken away.
WithoutConnector(filters) == [filters EXCEPT ![1].connector = "none"]

\* C3 as stated: a chain whose first filter carries a connector never
\* compiles to a string that begins with the token AND or OR.
C3_NoLeadingConnector ==
    (Built /\ Len(query_filters) > 0 /\ query_filters[1].connector # "none")
        => ~StartsWithToken(query, "AND") /\ ~StartsWithToken(query, "OR")

\* C3 amended: exactly the one leading connector token is stripped.  The
\* compiled string then begins with the token AND or OR only when the first
\* filter is a negated filter on a named field (the AND of the negation rule,
\* which stays) or a non-negated content filter whose value is the word AND
\* or OR itself; in every other case it is what the chain compiles to when
\* its first filter carries no connector.
C3_LeadingConnectorStripped ==
    (Built /\ Len(query_filters) > 0 /\ query_filters[1].connector # "none")
        => LET f == query_filters[1]
               kept == f.field # "content" /\ f.negated
               word == /\ f.field = "content"
                       /\ ~f.negated
                       /\ f.value \in {PyStr("AND"), PyStr("OR")}
           IN  /\ (StartsWithToken(query, "AND") \/ StartsWithToken(query, "OR"))
                      <=> (kept \/ word)
               /\ kept => StartsWithToken(query, "AND")
               /\ ~word => query = (IF kept THEN "AND " ELSE "")
                                    \o CompileQuery(WithoutConnector(query_filters))

\* C3's case: a first filter with connector and, negated, on a named field.
C3_Witness ==
    /\ Built
    /\ Len(query_filters) = 2
    /\ query_filters[1].connector = "and"
    /\ query_filters[1].negated
    /\ query_filters[1].field = "status"
    /\ StartsWithToken(query, "AND")

\* The chain of C4: status gte 5, negated, under any connector.
IsC4Chain ==
    /\ Len(query_filters) = 1
    /\ query_filters[1].field = "status"
    /\ query_filters[1].filter_type = "gte"
    /\ query_filters[1].value = PyInt(FALSE, "5")
    /\ query_filters[1].negated
    /\ models = <<>>

\* C4 as stated: the negated gte filter on status with the value 5 compiles
\* to "AND NOT status:5..*".
C4_AsStated ==
    (Built /\ IsC4Chain) => final_query = "AND NOT status:5..*"

\* C4 amended: the value is marshalled to 12 digits; the result is
\* "NOT status:000000000005..*" when the filter carries no connector (the AND
\* of the negation rule is then the leading token and is stripped) and
\* "AND NOT status:000000000005..*" when it carries one.
C4_NegatedGte ==
    (Built /\ IsC4Chain)
        => final_query = IF query_filters[1].connector = "none"
                         THEN "NOT status:000000000005..*"
                         ELSE "AND NOT status:000000000005..*"

C4_Witness ==
    /\ Built
    /\ IsC4Chain
    /\ query_filters[1].connector = "and"
    /\ final_query = "AND NOT status:000000000005..*"

\* field:v for each value of a sequence, the values as they are given.
AsGiven(F, values) == [i \in 1..Len(values) |-> F \o ":" \o ElemStr(values[i])]

\* C5: a non-negated in filter on field F with the values v1..vn compiles to
\* "(F:v1 OR F:v2 OR ... OR F:vn)", the values in order and as given.
C5_InGroup ==
    (/\ Built
     /\ Len(query_filters) = 1
     /\ query_filters[1].filter_type = "in"
     /\ ~query_filters[1].negated)
        => query = "(" \o Join(AsGiven(query_filters[1].field,
                                       query_filters[1].value.l), " OR ") \o ")"

\* C6: a negated in filter on field F with the values v1..vn emits the token
\* AND and then "NOT F:v1 NOT F:v2 ... NOT F:vn".
C6_NotInChain ==
    (/\ Built
     /\ Len(query_filters) = 1
     /\ query_filters[1].filter_type = "in"
     /\ query_filters[1].negated)
        => LET f == query_filters[1]
               chain == "NOT " \o Join(AsGiven(f.field, f.value.l), " NOT ")
           IN  /\ QueryChunks(query_filters)
                    = (IF f.connector = "and" THEN <<"AND">> ELSE <<>>)
                      \o (IF f.connector = "or" THEN <<"OR">> ELSE <<>>)
                      \o <<"AND", chain>>
               /\ query = (IF f.connector # "none" THEN "AND " ELSE "") \o chain

\* "django_ct:" + type for each declared type, joined by single spaces.
RECURSIVE TypeClause(_)
TypeClause(ms) ==
    IF Len(ms) = 0 THEN ""
    ELSE "django_ct:" \o ms[1].app_label \o "." \o ms[1].module_name
         \o (IF Len(ms) > 1 THEN " " ELSE "") \o TypeClause(Tail(ms))

\* C7: with the compiled predicate q ("*" for the empty chain), build_query
\* returns "(" + q + ") " + the type clause when model types are declared,
\* and q itself when none is.
C7_ModelWrap ==
    Built
        => /\ query_filters = <<>> => query = "*"
           /\ final_query = IF Len(models) = 0 THEN query
                             ELSE "(" \o query \o ") " \o TypeClause(models)

\* C7's case: two declared types around a compiled chain.
C7_Witness ==
    /\ Built
    /\ query_filters = <<Filter("status", "exact", PyStr("open"), "none", FALSE)>>
    /\ final_query
         = "(status:open) django_ct:core.mockmodel django_ct:core.anothermockmodel"

-----------------------------------------------------------------------------
(* Properties of the date facets.                                            *)

Reverse(seq) == [i \in 1..Len(seq) |-> seq[Len(seq) + 1 - i]]

Labels(list) == [i \in 1..Len(list) |-> list[i].label]

\* start_date + k * gap_amount units of gap_by, in calendar arithmetic.
StartAt(req, k) ==
    LET n == k * req.gap_amount
        months == (req.start_date.mo - 1) + n
    IN  CASE req.gap_by = "year"   -> [req.start_date EXCEPT !.y = @ + n]
          [] req.gap_by = "month"  -> [req.start_date EXCEPT
                                          !.y = @ + (months \div 12),
                                          !.mo = (months % 12) + 1]
          [] req.gap_by = "day"    -> AddSeconds(req.start_date, 86400 * n)
          [] req.gap_by = "hour"   -> AddSeconds(req.start_date, 3600 * n)
          [] req.gap_by = "minute" -> AddSeconds(req.start_date, 60 * n)
          [] req.gap_by = "second" -> AddSeconds(req.start_date, n)

\* The labels of the starts StartAt(req, k), k = from, from+1, ..., as long as
\* they are before end_date.
RECURSIVE StartsFrom(_, _)
StartsFrom(req, from) ==
    IF DtLT(StartAt(req, from), req.end_date)
    THEN <<IsoFormat(StartAt(req, from))>> \o StartsFrom(req, from + 1)
    ELSE <<>>

LoopEnded == facet_pc = "loop" /\ ~DtLT(date_range, facet_req.end_date)

\* C8: the bucket starts are exactly start_date + k * gap_amount units of
\* gap_by, k = 0, 1, ..., as long as that is before end_date; each bucket
\* starts at count 0, and the list is returned in descending order of start.
C8_Buckets ==
    /\ facet_pc # "gen_error"
    /\ LoopEnded
         => facet_list = [i \in 1..Len(StartsFrom(facet_req, 0)) |->
                             Bucket(StartsFrom(facet_req, 0)[i], 0)]
    /\ facet_pc = "done"
         => Labels(facet_list) = Reverse(StartsFrom(facet_req, 0))

\* The start a label stands for, microseconds included.
LabelStart(label) ==
    [StrpTime(SubSeq(label, 1, 19)) EXCEPT
        !.us = IF Len(label) > 19 THEN ParseInt(SubSeq(label, 21, 26)) ELSE 0]

\* The results that have a date value later than the start of bucket n and
\* not later than any later start.
CountedIn(list, rs, n) ==
    {i \in 1..Len(rs) :
        /\ rs[i].t # "none"
        /\ DtLT(LabelStart(list[n].label), AsDateTime(rs[i]))
        /\ \A m \in 1..Len(list) :
              DtLT(LabelStart(list[n].label), LabelStart(list[m].label))
                  => ~DtLT(LabelStart(list[m].label), AsDateTime(rs[i]))}

RECURSIVE SumCounts(_)
SumCounts(list) == IF Len(list) = 0 THEN 0 ELSE list[1].count + SumCounts(Tail(list))

\* C9: each result with a date value increments exactly the latest bucket
\* whose start is strictly earlier than its date, and none when there is no
\* such bucket; the counts sum to at most the number of results.
C9_Tally ==
    /\ facet_pc # "tally_error"
    /\ facet_pc = "done"
         => /\ \A n \in 1..Len(facet_list) :
                  facet_list[n].count
                      = Cardinality(CountedIn(facet_list, results, n))
            /\ SumCounts(facet_list) <= Len(results)

-----------------------------------------------------------------------------
(* Properties of the store.                                                  *)

\* The documents of db that carry the type-marker term of none of the models.
RECURSIVE OfOtherModels(_, _)
OfOtherModels(db, ms) ==
    IF Len(db) = 0 THEN <<>>
    ELSE (IF \E i \in 1..Len(ms) : ms[i] = db[1].ct THEN <<>> ELSE <<db[1]>>)
         \o OfOtherModels(Tail(db), ms)

\* C10: whatever the store holds, clear() without models leaves
\* document_count() = 0, and clear(models) deletes exactly the documents that
\* carry the type-marker term of one of the models.
C10_Clear ==
    [][op'.name = "clear"
          => IF op'.arg = <<>>
             THEN DocCount(store') = 0
             ELSE store' = Normalize(OfOtherModels(store, op'.arg))]_vars

\* No identifier Q<app>.<model>.<pk> is carried by two documents.
Unique(db) ==
    \A i, j \in 1..Len(db) :
        (i # j /\ db[i].ct = db[j].ct)
            => (db[i].lo + db[i].n <= db[j].lo \/ db[j].lo + db[j].n <= db[i].lo)

\* What db holds for (ct, pk): nothing (0) or the version of its data.
Stored(db, ct, pk) == IF Holds(db, ct, pk) THEN DataOf(db, ct, pk) ELSE 0

\* C11: the store holds at most one document per identifier; an update
\* that gets through its batch leaves every entity of its batch indexed with the latest data, adds one
\* document per entity that was not indexed and none for one that was,
\* leaves the other documents alone, and a second update with the same data
\* gives the same store.
C11_Upsert ==
    /\ []Unique(store)
    /\ [][(op'.name = "update" /\ op'.arg[3] = 0)
            => LET b == op'.arg[1]
                   d == op'.arg[2]
                   ids == b.lo .. (b.lo + b.n - 1)
               IN  /\ \A pk \in ids : Stored(store', b.ct, pk) = d
                   /\ DocCount(store')
                        = DocCount(store)
                          + Cardinality({pk \in ids : ~Holds(store, b.ct, pk)})
                   /\ \A ct \in AllModels, pk \in 1..MaxPk :
                          (ct # b.ct \/ pk \notin ids)
                              => Stored(store', ct, pk) = Stored(store, ct, pk)
                   /\ UpdatedStore(store', b, d) = store']_vars

\* C11's case: the last update replaced the document of an indexed entity in
\* its place, in front of a document that was added after it.
C11_Witness ==
    /\ op.name = "update"
    /\ op.arg = <<Batch(Model("core", "mockmodel"), 1, 1), 2, 0>>
    /\ store = <<Extent(Model("core", "mockmodel"), 1, 1, 2),
                 Extent(Model("core", "anothermockmodel"), 1, 1, 1)>>

-----------------------------------------------------------------------------
(* Properties of the schema.                                                 *)

\* The operation that ran last opened the database in read mode.
ReadOpened ==
    \/ op.name = "document_count" /\ db_exists
    \/ op.name \in {"search", "more_like_this"}
         /\ response.raised = "none"
         /\ ~(op.name = "search" /\ op.arg[1] = "")

\* C12: once a write-mode open has persisted the schema, a read-mode open
\* (search, more_like_this, document_count), on any adapter instance, leaves
\* the adapter with exactly the persisted schema and content field name,
\* whatever the field declarations are.
C12_SchemaReloaded ==
    ReadOpened => backend = metadata /\ metadata # NoSchema

\* C12's case: a read-mode open on a store whose schema was persisted under
\* other declarations than SiteFields.
C12_Witness ==
    /\ op.name = "search"
    /\ ReadOpened
    /\ metadata = build_schema(MoreFields)
    /\ backend = build_schema(MoreFields)

\* C13: every open of an existing store, in read mode or in write mode,
\* reloads the persisted schema: the metadata of the store does not change
\* within one index generation and the adapter has its schema afterwards.
C13_ColumnsStable ==
    [][(db_exists /\ db_exists' /\ op'.name # "__init__")
          => /\ metadata' = metadata
             /\ (op'.name = "search" /\ op'.arg[1] = "") \/ backend' = metadata]_vars

-----------------------------------------------------------------------------
(* Properties of the range processor.                                        *)

\* The field the token begin names, and its low bound.
RangeField ==
    LET name == SubSeq(range_in.begin, 1, Find(range_in.begin, ":"))
    IN  IF \E i \in 1..Len(range_in.schema) : range_in.schema[i].field_name = name
        THEN range_in.schema[CHOOSE i \in 1..Len(range_in.schema) :
                                 range_in.schema[i].field_name = name]
        ELSE [field_name |-> name, type |-> "none", column |-> -1]

RangeLow ==
    SubSeq(range_in.begin, Find(range_in.begin, ":") + 2, Len(range_in.begin))

\* The sentinels of a type, in the form the tuple carries them.
MinSentinel(type) ==
    CASE type = "text"  -> "a"
      [] type = "long"  -> _marshal_value(sys_minint)
      [] type = "float" -> _marshal_value(PyFloat("-inf"))
      [] type = "date"  -> "00010101000000"

MaxSentinel(type) ==
    CASE type = "text"  -> Repeat("z", 100)
      [] type = "long"  -> _marshal_value(sys_maxint)
      [] type = "float" -> _marshal_value(PyFloat("inf"))
      [] type = "date"  -> "99990101000000"

\* A given bound of a type, in the form the tuple carries it.
GivenBound(type, bound) ==
    CASE type = "long"  -> _marshal_value(ToLong(PyStr(bound)))
      [] type = "float" -> _marshal_value(ToFloat(PyStr(bound)))
      [] OTHER          -> bound

\* C14: for a field of type text, long, float or date the processor returns
\* the column of the field, the minimum sentinel of the type as low bound
\* when the low side is empty and the maximum sentinel as high bound when
\* the high side is "*", both at once too; the bounds of long and float
\* fields are marshalled.
C14_RangeBounds ==
    (op.name = "XHValueRangeProcessor"
        /\ RangeField.type \in {"text", "long", "float", "date"})
        => /\ range_out.t = "tuple"
           /\ range_out.column = RangeField.column
           /\ range_out.begin = IF RangeLow = "" THEN MinSentinel(RangeField.type)
                                 ELSE GivenBound(RangeField.type, RangeLow)
           /\ range_out.end = IF range_in.end = "*" THEN MaxSentinel(RangeField.type)
                               ELSE GivenBound(RangeField.type, range_in.end)

-----------------------------------------------------------------------------
(* Properties of search and more_like_this.                                  *)

\* more_like_this ran last, for the entity pk of ct.
MltRan == op.name = "more_like_this"

\* The seed's document is not among the results and no expansion term
\* carries the type-marker prefix.
MltSafe ==
    /\ ~Holds(response.results, op.arg[1], op.arg[2])
    /\ \A term \in response.terms : ~StartsWith(term, "XCONTENTTYPE")

\* C15 as stated: in every store state more_like_this(E) returns neither
\* E's document nor uses an expansion term with the prefix XCONTENTTYPE,
\* and returns the empty result set when E is not indexed.
C15_AsStated ==
    MltRan
        => /\ MltSafe
           /\ ~Holds(store, op.arg[1], op.arg[2])
                 => response.raised = "none" /\ response.results = <<>>

\* C15 amended: on a store that exists more_like_this(E) returns a result
\* set without E's document, derived from expansion terms without the prefix
\* XCONTENTTYPE, and the empty one when E is not indexed; on a missing store
\* it raises DatabaseOpeningError and returns nothing.
C15_MoreLikeThis ==
    MltRan
        => /\ MltSafe
           /\ db_exists
                 => /\ response.raised = "none"
                    /\ ~Holds(store, op.arg[1], op.arg[2])
                         => response.results = <<>> /\ response.hits = 0
           /\ ~db_exists
                 => /\ response.raised = "DatabaseOpeningError"
                    /\ response.results = <<>>

\* C15's case: the seed is indexed and another document shares its terms.
C15_Witness ==
    /\ MltRan
    /\ Holds(store, op.arg[1], op.arg[2])
    /\ response.terms # {}
    /\ response.results # <<>>
    /\ DocCount(response.results) < DocCount(store)

\* C16: when the values of the k-th object of a batch raise the decoding
\* error, update returns without an exception; the documents of the objects
\* 1..k-1 are stored with the new data, those of the objects k..n are as
\* they were, absent or of the old data, and so is every document outside
\* the batch.
C16_BatchAbort ==
    [][(op'.name = "update" /\ op'.arg[3] > 0)
          => LET b == op'.arg[1]
                 d == op'.arg[2]
                 k == op'.arg[3]
             IN  /\ response' = NoResponse
                 /\ \A pk \in b.lo .. (b.lo + k - 2) : Stored(store', b.ct, pk) = d
                 /\ \A pk \in (b.lo + k - 1) .. (b.lo + b.n - 1) :
                        Stored(store', b.ct, pk) = Stored(store, b.ct, pk)
                 /\ \A ct \in AllModels, pk \in 1..MaxPk :
                        (ct # b.ct \/ pk \notin b.lo .. (b.lo + b.n - 1))
                            => Stored(store', ct, pk) = Stored(store, ct, pk)
                 /\ DocCount(store')
                      = DocCount(store)
                        + Cardinality({pk \in b.lo .. (b.lo + k - 2) :
                                          ~Holds(store, b.ct, pk)})]_vars

\* C16's case: the second object of a batch of two failed; the first has the
\* new data, the second the data of an earlier update.
C16_Witness ==
    /\ op.name = "update"
    /\ op.arg = <<Batch(Model("core", "mockmodel"), 1, 2), 2, 2>>
    /\ store = <<Extent(Model("core", "mockmodel"), 1, 1, 2),
                 Extent(Model("core", "mockmodel"), 2, 1, 1)>>

\* C17: a search with a query string and a query_facets request on an
\* existing store warns, returns, and leaves the 'queries' entry of the
\* facets empty, no search of a sub-query having run.
C17_QueryFacetsSkipped ==
    (/\ op.name = "search"
     /\ op.arg[1] # ""
     /\ op.arg[2].t # "none"
     /\ db_exists)
        => /\ warned
           /\ response.raised = "none"
           /\ response.queries = <<>>

\* C18: a search with the empty query string returns no results and hits 0
\* in every state of the store, a missing store included; it opens nothing:
\* the store, its metadata and the schema the adapter holds are as before.
C18_EmptyQuery ==
    [][(op'.name = "search" /\ op'.arg[1] = "")
          => /\ response'.raised = "none"
             /\ response'.results = <<>>
             /\ response'.hits = 0
             /\ response'.queries = <<>>
             /\ backend' = backend
             /\ store' = store
             /\ db_exists' = db_exists
             /\ metadata' = metadata]_vars

\* C18's case: the empty query string on a missing store.
C18_Witness ==
    /\ op.name = "search"
    /\ op.arg[1] = ""
    /\ ~db_exists
    /\ response.raised = "none"
    /\ response.hits = 0

-----------------------------------------------------------------------------
(* Properties of the field facets.                                           *)

\* The values of a field on the results, and the results carrying a value.
Observed(field) == {results[j][field] : j \in 1..Len(results)}

Carrying(field, value) == {j \in 1..Len(results) : results[j][field] = value}

RECURSIVE SumItemCounts(_)
SumItemCounts(items) ==
    IF items = {} THEN 0
    ELSE LET item == CHOOSE item \in items : TRUE
         IN  item[2] + SumItemCounts(items \ {item})

\* The entry of a field has one item per value observed, its count the
\* number of results carrying the value.
EntryExact(entry) ==
    /\ {item[1] : item \in entry.items} = Observed(entry.field)
    /\ Cardinality(entry.items) = Cardinality(Observed(entry.field))
    /\ \A item \in entry.items :
          item[2] = Cardinality(Carrying(entry.field, item[1]))
    /\ SumItemCounts(entry.items) = Len(results)

\* C19: on every result list and every requested field _do_field_facets
\* returns, and the entry of each field holds exactly one item per distinct
\* value observed, counted by the results that carry it; the counts of a
\* field sum to the number of results.
C19_FieldFacets ==
    op.name = "_do_field_facets"
        => /\ facet_pc # "type_error"
           /\ \A i \in 1..Len(facet_list) :
                 /\ facet_list[i].field = facet_req[i]
                 /\ EntryExact(facet_list[i])

-----------------------------------------------------------------------------
(* Properties of the range patterns.                                         *)

\* The clause of a compiled single filter, the connective in front of it
\* apart.
Clause(q) == IF StartsWithToken(q, "AND") THEN SubSeq(q, 5, Len(q)) ELSE q

\* The value of the domain that a marshalled bound stands for.
BoundOf(s) ==
    CHOOSE n \in 0..MaxBound : MarshalInt(PyInt(FALSE, ToString(n))) = s

\* The reading of lo..hi: lo <= value <= hi, an empty low side and a high
\* side '*' unbounded.
InRange(range, value) ==
    LET dots == Find(range, ".")
        lo   == SubSeq(range, 1, dots)
        hi   == SubSeq(range, dots + 3, Len(range))
    IN  /\ lo = "" \/ BoundOf(lo) <= value
        /\ hi = "*" \/ value <= BoundOf(hi)

\* The reading of a clause F:lo..hi or NOT F:lo..hi, NOT as the complement.
ClauseMatches(clause, value) ==
    LET negated == StartsWith(clause, "NOT ")
        body    == IF negated THEN SubSeq(clause, 5, Len(clause)) ELSE clause
        range   == SubSeq(body, Find(body, ":") + 2, Len(body))
    IN  IF negated THEN ~InRange(range, value) ELSE InRange(range, value)

\* The comparison an operator stands for.
Compare(filter_type, value, V) ==
    CASE filter_type = "gt"  -> value > V
      [] filter_type = "gte" -> value >= V
      [] filter_type = "lt"  -> value < V
      [] filter_type = "lte" -> value <= V

\* C20: with a range clause read as lo <= value <= hi and NOT as the
\* complement, the pattern build_query emits for gt, gte, lt, lte and a
\* bound V matches exactly the values >, >=, <, <= V, and the pattern of the
\* negated filter matches exactly the other values of the domain.
C20_RangePatterns ==
    (op.name = "build_query" /\ Len(query_filters) = 1
        /\ query_filters[1].filter_type \in RangeOps
        /\ query_filters[1].value.t = "int")
        => LET the_filter == query_filters[1]
               V == BoundOf(MarshalInt(the_filter.value))
           IN  \A value \in 0..MaxBound :
                  ClauseMatches(Clause(query), value)
                    = IF the_filter.negated
                      THEN ~Compare(the_filter.filter_type, value, V)
                      ELSE Compare(the_filter.filter_type, value, V)

\* C20's case: the negated gt filter with the bound 2 compiled to the range
\* up to 2.
C20_Witness ==
    /\ op.name = "build_query"
    /\ query_filters = <<Filter("pub", "gt", PyInt(FALSE, "2"), "none", TRUE)>>
    /\ query = "pub:..000000000002"

-----------------------------------------------------------------------------
(* Properties of the quoting.                                                *)

\* The whitespace characters.
Whitespace == {" ", "\t", "\n"}

HasWhitespace(s) == \E i \in 1..Len(s) : Char(s, i) \in Whitespace

EndsWith(s, suffix) ==
    Len(s) >= Len(suffix)
        /\ SubSeq(s, Len(s) - Len(suffix) + 1, Len(s)) = suffix

\* The marshalled value of a scalar, in double quotes when it holds
\* whitespace.
DisplayValue(value) ==
    LET m == _marshal_value(value)
    IN  IF HasWhitespace(m) THEN "\"" \o m \o "\"" ELSE m

\* The options of an in node: the elements as they are.
PlainOptions(the_filter) ==
    LET opts == [i \in 1..Len(the_filter.value.l) |->
                    the_filter.field \o ":" \o ElemStr(the_filter.value.l[i])]
    IN  IF the_filter.negated
        THEN "NOT " \o Join(opts, " NOT ")
        ELSE "(" \o Join(opts, " OR ") \o ")"

\* C21: the chunk of a filter with a scalar value, on content or on a named
\* field, carries the marshalled value, in double quotes if and only if it
\* holds a whitespace character; the chunk of an in node carries the
\* elements of its sequence, none marshalled, none quoted.
C21_Quoting ==
    (op.name = "build_query" /\ Len(query_filters) = 1)
        => LET the_filter == query_filters[1]
           IN  IF the_filter.value.t = "list"
               THEN EndsWith(query, PlainOptions(the_filter))
               ELSE EndsWith(query,
                        IF the_filter.field = "content"
                        THEN DisplayValue(the_filter.value)
                        ELSE FilterTypes(the_filter.negated,
                                         the_filter.filter_type,
                                         the_filter.field,
                                         DisplayValue(the_filter.value)))

-----------------------------------------------------------------------------
(* Properties of the bucket loop.                                            *)

\* C22: for every request with start_date < end_date, whatever its gap_by
\* and gap_amount, every iteration of the bucket loop that goes on leaves
\* the running bucket start strictly later than it was, so that the loop
\* reaches end_date and ends.
C22_BucketStartAdvances ==
    [][(facet_pc = "loop" /\ facet_pc' = "loop")
          => DtLT(date_range, date_range')]_vars

=============================================================================
